---------------------------- MODULE Spec2Model ----------------------------
(***************************************************************************)
(* Model of the "Simple" bounding volume hierarchy of src/bvh/simple.h     *)
(* (builder and traverser) together with the kernels of src/bvh/util.h.    *)
(*                                                                         *)
(* Numbers.  A float is modelled as a pair <<n, d>> in lowest terms:       *)
(*   d > 0          the finite value n/d                                    *)
(*   <<1, 0>>       +infinity                                              *)
(*   <<-1, 0>>      -infinity                                              *)
(*   <<0, 0>>       NaN                                                    *)
(* The arithmetic follows IEEE-754 for the special values (x/0, 0*inf,     *)
(* inf-inf, comparisons with NaN) and is exact on finite values: rounding  *)
(* and the sign of zero are not modelled.                                  *)
(***************************************************************************)
EXTENDS Integers, Sequences, FiniteSets, TLC

(***************************************************************************)
(* Floating point values                                                   *)
(***************************************************************************)
Abs(i) == IF i < 0 THEN -i ELSE i

Sgn(i) == IF i < 0 THEN -1 ELSE IF i > 0 THEN 1 ELSE 0

RECURSIVE GCD(_, _)
GCD(a, b) == IF b = 0 THEN a ELSE GCD(b, a % b)

\* the value n/d for d >= 0, in lowest terms
Norm(n, d) ==
    IF d = 0 THEN <<Sgn(n), 0>>
    ELSE LET g == GCD(Abs(n), d) IN <<n \div g, d \div g>>

F(i) == <<i, 1>>
Q(n, d) == Norm(n, d)
Inf == <<1, 0>>
NegInf == <<-1, 0>>
NaN == <<0, 0>>

IsNaN(a) == a[2] = 0 /\ a[1] = 0
IsInf(a) == a[2] = 0 /\ a[1] # 0
IsFinite(a) == a[2] > 0

fneg(a) == <<-a[1], a[2]>>

fadd(a, b) ==
    IF IsNaN(a) \/ IsNaN(b) THEN NaN
    ELSE IF IsInf(a) /\ IsInf(b) THEN (IF a = b THEN a ELSE NaN)
    ELSE IF IsInf(a) THEN a
    ELSE IF IsInf(b) THEN b
    ELSE Norm(a[1] * b[2] + b[1] * a[2], a[2] * b[2])

fsub(a, b) == fadd(a, fneg(b))

fmul(a, b) ==
    IF IsFinite(a) /\ IsFinite(b)
    THEN LET g1 == GCD(Abs(a[1]), b[2])
             g2 == GCD(Abs(b[1]), a[2])
         IN  Norm((a[1] \div g1) * (b[1] \div g2), (a[2] \div g2) * (b[2] \div g1))
    ELSE Norm(Sgn(a[1]) * Sgn(b[1]), 0)

\* a / b; x/0 is an infinity of the sign of x, 0/0 and inf/inf are NaN
frcp(b) ==
    IF b[1] > 0 THEN <<b[2], b[1]>>
    ELSE IF b[1] < 0 THEN <<-b[2], -b[1]>>
    ELSE IF b[2] > 0 THEN Inf ELSE NaN

fdiv(a, b) ==
    IF IsNaN(a) \/ IsNaN(b) THEN NaN
    ELSE IF IsInf(a) /\ IsInf(b) THEN NaN
    ELSE IF IsInf(b) THEN F(0)
    ELSE IF b[1] = 0 THEN Norm(a[1], 0)
    ELSE fmul(a, frcp(b))

\* a < b; false when either is NaN
flt(a, b) ==
    IF IsNaN(a) \/ IsNaN(b) THEN FALSE
    ELSE IF a[2] = 0 \/ b[2] = 0
         THEN (IF a[2] = 0 /\ b[2] = 0 THEN a[1] < b[1]
               ELSE IF a[2] = 0 THEN a[1] < 0 ELSE b[1] > 0)
    ELSE LET qa == a[1] \div a[2]
             qb == b[1] \div b[2]
         IN  IF qa # qb THEN qa < qb
             ELSE (a[1] % a[2]) * b[2] < (b[1] % b[2]) * a[2]

fgt(a, b) == flt(b, a)
feq(a, b) == ~IsNaN(a) /\ ~IsNaN(b) /\ a = b
fle(a, b) == flt(a, b) \/ feq(a, b)
\* the comparison of util.h 222 written tmax > tmin
fge_strict(a, b) == flt(b, a)
fge(a, b) == fle(b, a)

fabsf(a) == <<Abs(a[1]), a[2]>>

\* std::min / std::max: the first argument is returned unless the comparison holds
stdmin(a, b) == IF flt(b, a) THEN b ELSE a
stdmax(a, b) == IF flt(a, b) THEN b ELSE a

(***************************************************************************)
(* util.h: v3 and the vector kernel.  A v3 is <<x, y, z>>; operator[] takes *)
(* a 0-based index.                                                        *)
(***************************************************************************)
v3(xx, yy, zz) == <<xx, yy, zz>>
At(v, idx) == v[idx + 1]

vadd(a, b) == <<fadd(a[1], b[1]), fadd(a[2], b[2]), fadd(a[3], b[3])>>
vsub(a, b) == <<fsub(a[1], b[1]), fsub(a[2], b[2]), fsub(a[3], b[3])>>
vdivs(a, s) == <<fdiv(a[1], s), fdiv(a[2], s), fdiv(a[3], s)>>
vmin(a, b) == <<stdmin(a[1], b[1]), stdmin(a[2], b[2]), stdmin(a[3], b[3])>>
vmax(a, b) == <<stdmax(a[1], b[1]), stdmax(a[2], b[2]), stdmax(a[3], b[3])>>

dot(a, b) == fadd(fadd(fmul(a[1], b[1]), fmul(a[2], b[2])), fmul(a[3], b[3]))
cross(a, b) ==
    <<fsub(fmul(a[2], b[3]), fmul(a[3], b[2])),
      fsub(fmul(a[3], b[1]), fmul(a[1], b[3])),
      fsub(fmul(a[1], b[2]), fmul(a[2], b[1]))>>

\* lines 95-108 with >= written for each >
max_dim_ge(a) ==
    IF fge(fabsf(a[1]), fabsf(a[2]))
    THEN (IF fge(fabsf(a[1]), fabsf(a[3])) THEN 0 ELSE 2)
    ELSE (IF fge(fabsf(a[2]), fabsf(a[3])) THEN 1 ELSE 2)

max_dim(a) ==
    IF fgt(fabsf(a[1]), fabsf(a[2]))
    THEN (IF fgt(fabsf(a[1]), fabsf(a[3])) THEN 0 ELSE 2)
    ELSE (IF fgt(fabsf(a[2]), fabsf(a[3])) THEN 1 ELSE 2)

(***************************************************************************)
(* util.h: the Woop ray, the ray-triangle and the ray-box kernels          *)
(***************************************************************************)
\* util.h 132-141 with the three indices chosen
WoopRayOf(org, dir, xi, yi, zi) ==
    [org |-> org,
     Sx |-> fdiv(At(dir, xi), At(dir, zi)),
     Sy |-> fdiv(At(dir, yi), At(dir, zi)),
     Sz |-> fdiv(F(1), At(dir, zi)),
     x_index |-> xi, y_index |-> yi, z_index |-> zi]

\* util.h 133-137 with z_index chosen
WoopRayAlong(org, dir, zi) ==
    IF flt(At(dir, zi), F(0))
    THEN WoopRayOf(org, dir, (zi + 2) % 3, (zi + 1) % 3, zi)
    ELSE WoopRayOf(org, dir, (zi + 1) % 3, (zi + 2) % 3, zi)

woop_ray(org, dir) == WoopRayAlong(org, dir, max_dim(dir))

\* The result of the triangle test is [ok, d, bary]: ok is the return value, d
\* and bary are the values written through the two out-pointers (written only
\* when ok).
WoopMiss == [ok |-> FALSE, d |-> NaN, bary |-> <<NaN, NaN>>]

\* util.h 189-198 with the test of line 191 written t < min_t
WoopDistanceNoMax(V, W, rcp_det, t, min_t, max_t) ==
    IF flt(t, min_t) THEN WoopMiss
    ELSE [ok |-> TRUE, d |-> t, bary |-> <<fmul(V, rcp_det), fmul(W, rcp_det)>>]

\* util.h 189-198: t = T * rcp_det against [min_t, max_t], and the outputs
WoopDistance(V, W, rcp_det, t, min_t, max_t) ==
    IF flt(t, min_t) \/ fgt(t, max_t) THEN WoopMiss
    ELSE [ok |-> TRUE, d |-> t, bary |-> <<fmul(V, rcp_det), fmul(W, rcp_det)>>]

\* util.h 180-190: the determinant
WoopDet(U, V, W, det, T, min_t, max_t) ==
    IF feq(det, F(0)) THEN WoopMiss
    ELSE WoopDistance(V, W, fdiv(F(1), det), fmul(T, fdiv(F(1), det)), min_t, max_t)

\* the sign test of util.h 177 written with <= and >=: a zero edge function
\* counts for both signs
WoopSignsStrict(U, V, W, Az, Bz, Cz, min_t, max_t) ==
    IF (fle(U, F(0)) \/ fle(V, F(0)) \/ fle(W, F(0)))
         /\ (fge(U, F(0)) \/ fge(V, F(0)) \/ fge(W, F(0)))
    THEN WoopMiss
    ELSE WoopDet(U, V, W, fadd(fadd(U, V), W),
                 fadd(fadd(fmul(U, Az), fmul(V, Bz)), fmul(W, Cz)), min_t, max_t)

\* util.h 177-187: the sign test of the edge functions
WoopSigns(U, V, W, Az, Bz, Cz, min_t, max_t) ==
    IF (flt(U, F(0)) \/ flt(V, F(0)) \/ flt(W, F(0)))
         /\ (fgt(U, F(0)) \/ fgt(V, F(0)) \/ fgt(W, F(0)))
    THEN WoopMiss
    ELSE WoopDet(U, V, W, fadd(fadd(U, V), W),
                 fadd(fadd(fmul(U, Az), fmul(V, Bz)), fmul(W, Cz)), min_t, max_t)

\* util.h 160-175: the edge functions.  The double precision re-evaluation on a
\* zero computes the same exact values, so it is the same expression here.
WoopEdges(Ax, Ay, Bx, By, Cx, Cy, Az, Bz, Cz, min_t, max_t) ==
    WoopSigns(fsub(fmul(Cx, By), fmul(Cy, Bx)),
              fsub(fmul(Ax, Cy), fmul(Ay, Cx)),
              fsub(fmul(Bx, Ay), fmul(By, Ax)),
              Az, Bz, Cz, min_t, max_t)

\* util.h 153-158, 184-186: shear and scale of the translated vertices
WoopShear(r, A, B, C, min_t, max_t) ==
    WoopEdges(fsub(At(A, r.x_index), fmul(r.Sx, At(A, r.z_index))),
              fsub(At(A, r.y_index), fmul(r.Sy, At(A, r.z_index))),
              fsub(At(B, r.x_index), fmul(r.Sx, At(B, r.z_index))),
              fsub(At(B, r.y_index), fmul(r.Sy, At(B, r.z_index))),
              fsub(At(C, r.x_index), fmul(r.Sx, At(C, r.z_index))),
              fsub(At(C, r.y_index), fmul(r.Sy, At(C, r.z_index))),
              fmul(r.Sz, At(A, r.z_index)),
              fmul(r.Sz, At(B, r.z_index)),
              fmul(r.Sz, At(C, r.z_index)),
              min_t, max_t)

woop_ray_vs_triangle(r, min_t, max_t, p0, p1, p2) ==
    WoopShear(r, vsub(p0, r.org), vsub(p1, r.org), vsub(p2, r.org), min_t, max_t)

ray_vs_bounds(org, inv_dir, tmin, tmax, bmin, bmax) ==
    LET tx1 == fmul(fsub(bmin[1], org[1]), inv_dir[1])
        tx2 == fmul(fsub(bmax[1], org[1]), inv_dir[1])
        tmin1 == stdmax(tmin, stdmin(tx1, tx2))
        tmax1 == stdmin(tmax, stdmax(tx1, tx2))
        ty1 == fmul(fsub(bmin[2], org[2]), inv_dir[2])
        ty2 == fmul(fsub(bmax[2], org[2]), inv_dir[2])
        tmin2 == stdmax(tmin1, stdmin(ty1, ty2))
        tmax2 == stdmin(tmax1, stdmax(ty1, ty2))
        tz1 == fmul(fsub(bmin[3], org[3]), inv_dir[3])
        tz2 == fmul(fsub(bmax[3], org[3]), inv_dir[3])
        tmin3 == stdmax(tmin2, stdmin(tz1, tz2))
        tmax3 == stdmin(tmax2, stdmax(tz1, tz2))
    IN  fge(tmax3, tmin3)

(***************************************************************************)
(* base.h: constants.  static_cast<uint32_t>(-1) is written -1.            *)
(***************************************************************************)
TRIANGLE_INVALID == -1
TRACE_COHERENT == 1
TRACE_SHADOW == 2

(***************************************************************************)
(* simple.h: the private types of Simple                                   *)
(***************************************************************************)
INVALID == -1
MAX_NODE_SIZE == 4
BINS == 256

\* the float 1.00001f of the bin scale
BinSlack == Q(100001, 100000)

PlusInf3 == <<Inf, Inf, Inf>>
MinusInf3 == <<NegInf, NegInf, NegInf>>

\* Node{}, Volume{} and Bin{} as their default member initialisers leave them
NewNode == [min |-> PlusInf3, max |-> MinusInf3, offset |-> 0, count |-> 0, axis |-> 0]
NewVolume == [first |-> 0, last |-> 0, parent |-> INVALID, min |-> PlusInf3, max |-> MinusInf3]
NewBin == [min |-> PlusInf3, max |-> MinusInf3, count |-> 0]

\* 0-based element of a std::vector held as a sequence
Elem(vec, i) == vec[i + 1]
Put(vec, i, x) == [vec EXCEPT ![i + 1] = x]

\* vertex k (0..2) of triangle tri of a mesh: positions + 3 * indices[3 * tri + k]
Vertex(m, tri, k) ==
    LET vi == m.indices[3 * tri + k + 1]
    IN  <<m.positions[3 * vi + 1], m.positions[3 * vi + 2], m.positions[3 * vi + 3]>>

\* aabb_area is declared outside the files at hand: 2 (dx dy + dy dz + dz dx)
aabb_area(bmin, bmax) ==
    LET e == vsub(bmax, bmin)
    IN  fmul(F(2), fadd(fadd(fmul(e[1], e[2]), fmul(e[2], e[3])), fmul(e[3], e[1])))

(***************************************************************************)
(* simple.h, Simple::build: the pure parts of one call                     *)
(***************************************************************************)
\* lines 39-48: the Prim of source triangle ii (area is never read)
MakePrim(m, ii) ==
    LET v0 == Vertex(m, ii, 0)
        v1 == Vertex(m, ii, 1)
        v2 == Vertex(m, ii, 2)
    IN  [min |-> vmin(v0, vmin(v1, v2)),
         max |-> vmax(v0, vmax(v1, v2)),
         mid |-> vdivs(vadd(vadd(v0, v1), v2), F(3)),
         index |-> ii]

InitPrims(m) == [k \in 1..m.triangles |-> MakePrim(m, k - 1)]

\* lines 33-54: the root volume, its centroid box accumulated in index order
RECURSIVE RootVolume(_, _, _)
RootVolume(prims, ii, vol) ==
    IF ii >= Len(prims) THEN vol
    ELSE RootVolume(prims, ii + 1,
                    [vol EXCEPT !.min = vmin(vol.min, Elem(prims, ii).mid),
                                !.max = vmax(vol.max, Elem(prims, ii).mid)])

SplitAxis(vol) == max_dim(vsub(vol.max, vol.min))

BinScale(vol) ==
    fdiv(F(BINS), fmul(At(vsub(vol.max, vol.min), SplitAxis(vol)), BinSlack))

\* line 91, before the cast: (p - bin_min) * bin_scale
BinFloat(prims, vol, ii) ==
    fmul(fsub(At(Elem(prims, ii).mid, SplitAxis(vol)), At(vol.min, SplitAxis(vol))),
         BinScale(vol))

\* static_cast<uint32_t>(x) is defined for a finite x >= 0 only
CastDefined(x) == IsFinite(x) /\ x[1] >= 0
Truncate(x) == x[1] \div x[2]

AllCastsDefined(prims, vol) ==
    \A ii \in vol.first..(vol.last - 1) : CastDefined(BinFloat(prims, vol, ii))

\* line 91: the bin of prim ii; ub is the index an undefined cast yields
BinOf(prims, vol, ii, ub) ==
    IF CastDefined(BinFloat(prims, vol, ii)) THEN Truncate(BinFloat(prims, vol, ii)) ELSE ub

\* the bins of the prims first .. last - 1 of the volume, in prim order
RECURSIVE BinIndices(_, _, _, _, _)
BinIndices(acc, prims, vol, ii, ub) ==
    IF ii >= vol.last THEN acc
    ELSE BinIndices(Append(acc, BinOf(prims, vol, ii, ub)), prims, vol, ii + 1, ub)

BinsInRange(prims, vol, ub) ==
    \A ii \in vol.first..(vol.last - 1) : BinOf(prims, vol, ii, ub) \in 0..(BINS - 1)

\* lines 87-98 summed over the bins lo..hi: count, min and max of the prims of
\* the volume that fall into these bins, accumulated from Bin{} in prim order
\* (bidx[k] is the bin of prim first + k - 1)
RECURSIVE BinRange(_, _, _, _, _, _, _)
BinRange(acc, bidx, prims, vol, k, lo, hi) ==
    IF k > Len(bidx) THEN acc
    ELSE LET p == Elem(prims, vol.first + k - 1)
         IN  BinRange(IF bidx[k] >= lo /\ bidx[k] <= hi
                      THEN [count |-> acc.count + 1,
                            min |-> vmin(acc.min, p.min),
                            max |-> vmax(acc.max, p.max)]
                      ELSE acc,
                      bidx, prims, vol, k + 1, lo, hi)

\* lines 113-115, 129-131: left_count, left_min, left_max when candidate i is costed
LeftOf(bidx, prims, vol, i) == BinRange(NewBin, bidx, prims, vol, 1, 0, i - 1)

\* lines 100-111: right_count, right_min, right_max of bin i
RightOf(bidx, prims, vol, i) == BinRange(NewBin, bidx, prims, vol, 1, i, BINS - 1)

\* lines 121-122
Sah(bidx, prims, vol, i) ==
    LET l == LeftOf(bidx, prims, vol, i)
        r == RightOf(bidx, prims, vol, i)
    IN  fadd(fmul(F(l.count), aabb_area(l.min, l.max)),
             fmul(F(r.count), aabb_area(r.min, r.max)))

\* lines 117-132 over the candidates lo..hi: <<best_index, best_sah>>, the first
\* candidate of the least cost below INFINITY, <<0, INFINITY>> if there is none.
\* The loop of the source is a left-to-right scan that replaces the best on a
\* strictly smaller cost; the same result is computed here by halving the range.
RECURSIVE BestIn(_, _, _, _, _)
BestIn(bidx, prims, vol, lo, hi) ==
    IF lo = hi
    THEN LET sah == Sah(bidx, prims, vol, lo)
         IN  IF flt(sah, Inf) THEN <<lo, sah>> ELSE <<0, Inf>>
    ELSE LET m == (lo + hi) \div 2
             a == BestIn(bidx, prims, vol, lo, m)
             b == BestIn(bidx, prims, vol, m + 1, hi)
         IN  IF flt(b[2], a[2]) THEN b ELSE a

BestIndex(prims, vol, ub) ==
    BestIn(BinIndices(<<>>, prims, vol, vol.first, ub), prims, vol, 1, BINS - 1)[1]

\* line 134
SplitCoord(prims, vol, ub) ==
    fadd(At(vol.min, SplitAxis(vol)), fdiv(F(BestIndex(prims, vol, ub)), BinScale(vol)))

\* lines 141-163 with the swap of line 161 written prims[l] = prims[r - 1]
RECURSIVE PartitionOverwrite(_, _, _, _, _, _, _)
PartitionOverwrite(prims, l, r, left, right, axis, split) ==
    IF l >= r THEN [prims |-> prims, l |-> l, left |-> left, right |-> right]
    ELSE IF flt(At(Elem(prims, l).mid, axis), split)
         THEN PartitionOverwrite(prims, l + 1, r,
                                 [left EXCEPT !.min = vmin(left.min, Elem(prims, l).mid),
                                              !.max = vmax(left.max, Elem(prims, l).mid)],
                                 right, axis, split)
         ELSE PartitionOverwrite(Put(prims, l, Elem(prims, r - 1)),
                                 l, r - 1, left,
                                 [right EXCEPT !.min = vmin(right.min, Elem(prims, l).mid),
                                               !.max = vmax(right.max, Elem(prims, l).mid)],
                                 axis, split)

\* lines 141-163 with the test of line 146 written mid[axis] >= split
RECURSIVE PartitionGe(_, _, _, _, _, _, _)
PartitionGe(prims, l, r, left, right, axis, split) ==
    IF l >= r THEN [prims |-> prims, l |-> l, left |-> left, right |-> right]
    ELSE IF fge(At(Elem(prims, l).mid, axis), split)
         THEN PartitionGe(prims, l + 1, r,
                          [left EXCEPT !.min = vmin(left.min, Elem(prims, l).mid),
                                       !.max = vmax(left.max, Elem(prims, l).mid)],
                          right, axis, split)
         ELSE PartitionGe(Put(Put(prims, l, Elem(prims, r - 1)), r - 1, Elem(prims, l)),
                          l, r - 1, left,
                          [right EXCEPT !.min = vmin(right.min, Elem(prims, l).mid),
                                        !.max = vmax(right.max, Elem(prims, l).mid)],
                          axis, split)

\* lines 141-163: the in-place partition; the result is [prims, l, left, right]
RECURSIVE Partition(_, _, _, _, _, _, _)
Partition(prims, l, r, left, right, axis, split) ==
    IF l >= r THEN [prims |-> prims, l |-> l, left |-> left, right |-> right]
    ELSE IF flt(At(Elem(prims, l).mid, axis), split)
         THEN Partition(prims, l + 1, r,
                        [left EXCEPT !.min = vmin(left.min, Elem(prims, l).mid),
                                     !.max = vmax(left.max, Elem(prims, l).mid)],
                        right, axis, split)
         ELSE Partition(Put(Put(prims, l, Elem(prims, r - 1)), r - 1, Elem(prims, l)),
                        l, r - 1, left,
                        [right EXCEPT !.min = vmin(right.min, Elem(prims, l).mid),
                                      !.max = vmax(right.max, Elem(prims, l).mid)],
                        axis, split)

Degenerate(vol, l) == l = vol.first \/ l = vol.last

\* line 168 written l = vol.first
MedianFirst(vol) == vol.first
\* line 168
Median(vol) == (vol.first + vol.last) \div 2

\* lines 165-181: the two child volumes from the outcome of the partition
Children(vol, part, node_index) ==
    LET deg == Degenerate(vol, part.l)
        l == IF deg THEN Median(vol) ELSE part.l
        lbox == IF deg THEN vol ELSE part.left
        rbox == IF deg THEN vol ELSE part.right
    IN  [prims |-> part.prims,
         degenerate |-> deg,
         left |-> [first |-> vol.first, last |-> l, parent |-> INVALID,
                   min |-> lbox.min, max |-> lbox.max],
         right |-> [first |-> l, last |-> vol.last, parent |-> node_index,
                    min |-> rbox.min, max |-> rbox.max]]

\* lines 74-181: the reordered prims and the two child volumes
Split(prims, vol, node_index, ub) ==
    Children(vol,
             Partition(prims, vol.first, vol.last, NewVolume, NewVolume, SplitAxis(vol),
                       SplitCoord(prims, vol, ub)),
             node_index)

\* lines 194-213: the triangles of a leaf, and the leaf's box over their vertices
LeafTriangle(m, prim) ==
    [p0 |-> Vertex(m, prim.index, 0), p1 |-> Vertex(m, prim.index, 1),
     p2 |-> Vertex(m, prim.index, 2), index |-> prim.index]

LeafTriangles(m, prims, vol) ==
    [k \in 1..(vol.last - vol.first) |-> LeafTriangle(m, Elem(prims, vol.first + k - 1))]

RECURSIVE LeafBounds(_, _, _)
LeafBounds(node, tris, k) ==
    IF k > Len(tris) THEN node
    ELSE LeafBounds([node EXCEPT
                       !.min = vmin(vmin(node.min, tris[k].p0), vmin(tris[k].p1, tris[k].p2)),
                       !.max = vmax(vmax(node.max, tris[k].p0), vmax(tris[k].p1, tris[k].p2))],
                    tris, k + 1)

\* line 67-68: the parent's right index
SetParent(ns, vol, node_index) ==
    IF vol.parent # INVALID
    THEN Put(ns, vol.parent, [Elem(ns, vol.parent) EXCEPT !.offset = node_index])
    ELSE ns

(***************************************************************************)
(* simple.h, Simple::trace: the pure parts of one ray                      *)
(***************************************************************************)
Shadow(f) == (f \div TRACE_SHADOW) % 2 = 1

RayOrg(ray) == ray.origin
RayDir(ray) == ray.direction

\* line 260
InvDir(dir) == <<fdiv(F(1), dir[1]), fdiv(F(1), dir[2]), fdiv(F(1), dir[3])>>

\* line 252-253: Hit hit; only the triangle is initialised
NewHit == [triangle |-> TRIANGLE_INVALID, barycentric |-> <<NaN, NaN>>]

\* lines 293-306 without the stack.clear() and the break of lines 300-304
RECURSIVE LeafLoopAll(_, _, _, _, _, _, _)
LeafLoopAll(tris, jj, wr, min_t, mt, h, shadow) ==
    IF jj >= Len(tris) THEN [hit |-> h, max_t |-> mt, clear |-> FALSE, tested |-> jj]
    ELSE IF woop_ray_vs_triangle(wr, min_t, mt, Elem(tris, jj).p0, Elem(tris, jj).p1,
                                 Elem(tris, jj).p2).ok
         THEN LeafLoopAll(tris, jj + 1, wr, min_t,
                          woop_ray_vs_triangle(wr, min_t, mt, Elem(tris, jj).p0,
                                               Elem(tris, jj).p1, Elem(tris, jj).p2).d,
                          [triangle |-> Elem(tris, jj).index,
                           barycentric |-> woop_ray_vs_triangle(wr, min_t, mt, Elem(tris, jj).p0,
                                                                Elem(tris, jj).p1,
                                                                Elem(tris, jj).p2).bary],
                          shadow)
         ELSE LeafLoopAll(tris, jj + 1, wr, min_t, mt, h, shadow)

\* lines 293-306: the triangles tris[1..count] of a leaf, from position jj (0-based).
\* The result is [hit, max_t, clear, tested]: clear tells that the stack was
\* cleared, tested is the number of triangle tests made.
RECURSIVE LeafLoop(_, _, _, _, _, _, _)
LeafLoop(tris, jj, wr, min_t, mt, h, shadow) ==
    IF jj >= Len(tris) THEN [hit |-> h, max_t |-> mt, clear |-> FALSE, tested |-> jj]
    ELSE LET tri == Elem(tris, jj)
             res == woop_ray_vs_triangle(wr, min_t, mt, tri.p0, tri.p1, tri.p2)
         IN  IF res.ok
             THEN (IF shadow
                   THEN [hit |-> [triangle |-> tri.index, barycentric |-> res.bary],
                         max_t |-> res.d, clear |-> TRUE, tested |-> jj + 1]
                   ELSE LeafLoop(tris, jj + 1, wr, min_t, res.d,
                                 [triangle |-> tri.index, barycentric |-> res.bary], shadow))
             ELSE LeafLoop(tris, jj + 1, wr, min_t, mt, h, shadow)

\* line 278 written dir[axis] <= 0.0f
NearLast(dir, n) == ~fgt(At(dir, n.axis), F(0))

\* line 278: the near child is idx + 1 when the ray runs up the split axis
NearFirst(dir, n) == fgt(At(dir, n.axis), F(0))

(***************************************************************************)
(* Inputs: the meshes handed to build and the rays handed to trace         *)
(***************************************************************************)
P(x, y, z) == <<F(x), F(y), F(z)>>

\* a Mesh of base.h from its vertices and its index list
MkMesh(points, idx) ==
    [vertices |-> Len(points),
     triangles |-> Len(idx) \div 3,
     positions |-> [k \in 1..(3 * Len(points)) |-> points[((k - 1) \div 3) + 1][((k - 1) % 3) + 1]],
     indices |-> idx]

\* V = 0, T = 0
EmptyMesh == MkMesh(<<>>, <<>>)

\* one triangle in the plane z = 0
OneTriangle == MkMesh(<<P(0, 0, 0), P(1, 0, 0), P(0, 1, 0)>>, <<0, 1, 2>>)

\* two parallel triangles, the farther one (z = 2) first in the index list, and
\* behind them the two triangles of a unit square at z = 3 sharing its diagonal
Layers ==
    MkMesh(<<P(0, 0, 2), P(1, 0, 2), P(0, 1, 2), P(0, 0, 1), P(1, 0, 1), P(0, 1, 1),
             P(0, 0, 3), P(1, 0, 3), P(1, 1, 3), P(0, 1, 3)>>,
           <<0, 1, 2, 3, 4, 5, 6, 7, 8, 6, 8, 9>>)

\* six triangles in the planes x = 0 .. 5: more than MAX_NODE_SIZE, distinct centroids
Slices ==
    MkMesh(<<P(0, 0, 0), P(0, 1, 0), P(0, 0, 1), P(1, 0, 0), P(1, 1, 0), P(1, 0, 1),
             P(2, 0, 0), P(2, 1, 0), P(2, 0, 1), P(3, 0, 0), P(3, 1, 0), P(3, 0, 1),
             P(4, 0, 0), P(4, 1, 0), P(4, 0, 1), P(5, 0, 0), P(5, 1, 0), P(5, 0, 1)>>,
           <<0, 1, 2, 3, 4, 5, 6, 7, 8, 9, 10, 11, 12, 13, 14, 15, 16, 17>>)

\* ten triangles whose centroids are all the origin, with distinct vertex sets
Coincident ==
    MkMesh(<<P(-1, -1, 0), P(1, -1, 0), P(0, 2, 0),
             P(-2, -2, 0), P(2, -2, 0), P(0, 4, 0),
             P(-1, -1, -1), P(1, -1, 0), P(0, 2, 1),
             P(-2, -2, 1), P(2, -2, -1), P(0, 4, 0),
             P(-3, -3, 0), P(3, -3, 0), P(0, 6, 0),
             P(-1, -1, 1), P(1, -1, 0), P(0, 2, -1),
             P(-2, -2, -1), P(2, -2, 1), P(0, 4, 0),
             P(-1, -1, 2), P(1, -1, -1), P(0, 2, -1),
             P(-1, -1, -2), P(1, -1, 1), P(0, 2, 1),
             P(-3, -3, 1), P(3, -3, 0), P(0, 6, -1)>>,
           <<0, 1, 2, 3, 4, 5, 6, 7, 8, 9, 10, 11, 12, 13, 14, 15, 16, 17, 18, 19,
             20, 21, 22, 23, 24, 25, 26, 27, 28, 29>>)

Meshes == <<EmptyMesh, OneTriangle, Layers, Slices, Coincident>>

MkRay(o, d, tmin, tmax) == [origin |-> o, min_t |-> tmin, direction |-> d, max_t |-> tmax]

RayList ==
    << MkRay(<<Q(1, 4), Q(1, 4), F(-1)>>, P(0, 0, 1), F(0), Inf),
       MkRay(P(2, 2, -1), P(0, 0, 1), F(0), Inf),
       MkRay(<<Q(1, 4), Q(1, 4), F(0)>>, P(0, 0, 1), F(0), F(3)),
       MkRay(P(1, 0, -1), P(0, 0, 1), F(0), Inf),
       MkRay(<<F(-1), Q(1, 4), Q(1, 4)>>, P(1, 0, 0), F(0), Inf),
       MkRay(<<F(7), Q(1, 4), Q(1, 4)>>, P(-1, 0, 0), Q(5, 2), Q(9, 2)),
       MkRay(<<Q(-1, 2), Q(-3, 4), F(-1)>>, P(1, 1, 1), F(0), Inf),
       MkRay(<<Q(3, 4), Q(1, 2), F(5)>>, P(0, 0, -1), F(0), Inf),
       MkRay(<<Q(1, 4), Q(1, 4), F(-1)>>, P(0, 0, 1), F(1), F(1)),
       MkRay(<<Q(1, 2), Q(1, 2), F(5)>>, P(0, 0, -1), F(0), F(4)),
       MkRay(P(1, 1, 5), P(0, 0, -1), F(0), Inf),
       MkRay(<<Q(1, 4), Q(1, 4), F(-1)>>, P(0, 0, 0), F(0), Inf) >>

\* the batches handed to trace: up to MaxRays consecutive rays of RayList, and
\* some rays twice in one batch
MaxRays == 2
Repeated == {1, 7, 10}
Batches ==
    { SubSeq(RayList, w[1], w[1] + w[2] - 1) :
        w \in { v \in (1..Len(RayList)) \X (1..MaxRays) : v[1] + v[2] - 1 <= Len(RayList) } }
    \cup { <<RayList[k], RayList[k]>> : k \in Repeated }

FlagSet == {0, TRACE_COHERENT, TRACE_SHADOW}

\* the number of build calls made on one accelerator
MaxBuilds == 2

\* the depth at which a traversal that keeps pushing is cut off
MaxStack == 4

\* What an undefined float to uint32_t conversion yields: 0 or BINS - 1 stand
\* for the values inside the bins array, INVALID for an index outside of it.
UndefinedCast == {0, BINS - 1, INVALID}

\* What a read past the end of the node array or of the triangle array yields
EverywhereMin == <<NegInf, NegInf, NegInf>>
EverywhereMax == <<Inf, Inf, Inf>>
GarbageNodes ==
    { NewNode,
      [min |-> EverywhereMin, max |-> EverywhereMax, offset |-> 0, count |-> 0, axis |-> 0],
      [min |-> EverywhereMin, max |-> EverywhereMax, offset |-> 0, count |-> 1, axis |-> 0] }
GarbageTriangles ==
    { [p0 |-> P(-9, -9, 0), p1 |-> P(9, -9, 0), p2 |-> P(0, 9, 0), index |-> 0],
      [p0 |-> P(-9, -9, 0), p1 |-> P(9, -9, 0), p2 |-> P(0, 9, 0), index |-> 1] }

(***************************************************************************)
(* State                                                                   *)
(***************************************************************************)
VARIABLES
    nodes,       \* Simple::_nodes
    triangles,   \* Simple::_triangles
    built,       \* the meshes (positions in Meshes) given to build so far
    pc,          \* "empty", "split", "propagate", "ready", "trace", "traced", "crashed"
    prims,       \* build: prims
    vol,         \* build: vol
    volumes,     \* build: volumes, the top last
    idx,         \* build: idx of the propagation loop
    oob,         \* an element past the end of _nodes or _triangles was read
    input,       \* trace: the caller's ray array
    output,      \* trace: the caller's hit array
    flags,       \* trace: flags
    ii,          \* trace: ii
    stack,       \* trace: stack, the top last
    node_index,  \* trace: node_index
    hit,         \* trace: hit
    max_t,       \* trace: max_t
    prev,        \* the hits of the call before, when trace is called again on the same arrays
    dimArg,      \* max_dim: a, when max_dim is called on its own
    dimRes       \* max_dim: the value returned, INVALID before the call

vars == <<nodes, triangles, built, pc, prims, vol, volumes, idx, oob,
          input, output, flags, ii, stack, node_index, hit, max_t, prev,
          dimArg, dimRes>>

accel == <<nodes, triangles>>
buildVars == <<prims, vol, volumes, idx>>
traceVars == <<input, output, flags, ii, stack, node_index, hit, max_t, prev>>
dimVars == <<dimArg, dimRes>>

\* the mesh of the current (or the last) build call
mesh == Meshes[built[Len(built)]]

\* an element of the caller's hit array that no trace call has written
Unwritten == [triangle |-> -2, barycentric |-> <<NaN, NaN>>]

Constructed ==
    /\ nodes = <<>>
    /\ triangles = <<>>
    /\ built = <<>>
    /\ pc = "empty"
    /\ prims = <<>>
    /\ vol = NewVolume
    /\ volumes = <<>>
    /\ idx = 0
    /\ oob = FALSE
    /\ input = <<>>
    /\ output = <<>>
    /\ flags = 0
    /\ ii = 0
    /\ stack = <<>>
    /\ node_index = 0
    /\ hit = NewHit
    /\ max_t = F(0)
    /\ prev = <<>>

Init ==
    /\ Constructed
    /\ dimArg = <<F(0), F(0), F(0)>>
    /\ dimRes = INVALID

(***************************************************************************)
(* Simple::build                                                           *)
(***************************************************************************)
\* lines 23-54: entry; _nodes and _triangles are left as they are
BuildBegin(k) ==
    /\ pc \in {"empty", "ready"}
    /\ Len(built) < MaxBuilds
    /\ built' = Append(built, k)
    /\ prims' = InitPrims(Meshes[k])
    /\ vol' = RootVolume(InitPrims(Meshes[k]), 0,
                         [NewVolume EXCEPT !.last = Meshes[k].triangles])
    /\ volumes' = <<>>
    /\ idx' = 0
    /\ pc' = "split"
    /\ input' = <<>>
    /\ output' = <<>>
    /\ flags' = 0
    /\ ii' = 0
    /\ stack' = <<>>
    /\ node_index' = 0
    /\ hit' = NewHit
    /\ max_t' = F(0)
    /\ prev' = <<>>
    /\ UNCHANGED <<nodes, triangles, oob, dimVars>>

\* lines 63-68: the new node, and the parent's right index
Pushed == SetParent(Append(nodes, NewNode), vol, Len(nodes))

\* lines 72-187 with the cast of line 91 yielding ub where it is undefined
SplitWith(ub) ==
    \E sp \in {Split(prims, vol, Len(nodes), ub)} :
        /\ nodes' = Put(Pushed, Len(nodes),
                        [Elem(Pushed, Len(nodes)) EXCEPT !.axis = SplitAxis(vol)])
        /\ prims' = sp.prims
        /\ vol' = sp.left
        /\ volumes' = Append(volumes, sp.right)
        /\ UNCHANGED <<triangles, built, pc, idx, oob, traceVars, dimVars>>

BuildSplit ==
    /\ pc = "split"
    /\ vol.last - vol.first > MAX_NODE_SIZE
    /\ AllCastsDefined(prims, vol)
    /\ BinsInRange(prims, vol, 0)
    /\ SplitWith(0)

\* line 91 with (p - bin_min) * bin_scale not a finite value: the conversion is
\* undefined; it yields an index inside bins, or one outside and the write of
\* lines 95-97 faults
BuildSplitUndefined ==
    /\ pc = "split"
    /\ vol.last - vol.first > MAX_NODE_SIZE
    /\ ~AllCastsDefined(prims, vol)
    /\ \E ub \in UndefinedCast :
         IF ub \in 0..(BINS - 1)
         THEN SplitWith(ub)
         ELSE /\ pc' = "crashed"
              /\ nodes' = Pushed
              /\ UNCHANGED <<triangles, built, buildVars, oob, traceVars, dimVars>>

\* lines 188-222
BuildLeaf ==
    /\ pc = "split"
    /\ vol.last - vol.first <= MAX_NODE_SIZE
    /\ LET node_index0 == Len(nodes)
           tris == LeafTriangles(mesh, prims, vol)
           leaf == LeafBounds([Elem(Pushed, node_index0) EXCEPT
                                 !.offset = Len(triangles),
                                 !.count = vol.last - vol.first],
                              tris, 1)
       IN  /\ nodes' = Put(Pushed, node_index0, leaf)
           /\ triangles' = triangles \o tris
           /\ IF volumes = <<>>
              THEN /\ pc' = "propagate"
                   /\ idx' = Len(nodes) + 1
                   /\ UNCHANGED <<vol, volumes>>
              ELSE /\ vol' = volumes[Len(volumes)]
                   /\ volumes' = SubSeq(volumes, 1, Len(volumes) - 1)
                   /\ UNCHANGED <<pc, idx>>
    /\ UNCHANGED <<built, prims, oob, traceVars, dimVars>>

\* lines 229-241, one iteration with the children l and r of node idx - 1
PropagateWith(l, r) ==
    LET i == idx - 1
        n == Elem(nodes, i)
    IN  /\ nodes' = IF n.count = 0
                    THEN Put(nodes, i, [n EXCEPT !.min = vmin(l.min, r.min),
                                                 !.max = vmax(l.max, r.max)])
                    ELSE nodes
        /\ idx' = i
        /\ IF i = 0
           THEN /\ pc' = "ready"
                /\ prims' = <<>>
                /\ vol' = NewVolume
           ELSE UNCHANGED <<pc, prims, vol>>
        /\ UNCHANGED <<triangles, built, volumes, traceVars, dimVars>>

InRange(vec, i) == i < Len(vec)

\* the node indices line 235-239 read at node i
ChildrenInRange(i) ==
    Elem(nodes, i).count = 0 =>
        InRange(nodes, i + 1) /\ InRange(nodes, Elem(nodes, i).offset)

BuildPropagate ==
    /\ pc = "propagate"
    /\ idx > 0
    /\ ChildrenInRange(idx - 1)
    /\ LET n == Elem(nodes, idx - 1)
       IN  IF n.count = 0
           THEN PropagateWith(Elem(nodes, idx), Elem(nodes, n.offset))
           ELSE PropagateWith(n, n)
    /\ UNCHANGED oob

\* lines 235-239 reading _nodes past its end
BuildPropagateOutOfRange ==
    /\ pc = "propagate"
    /\ idx > 0
    /\ ~ChildrenInRange(idx - 1)
    /\ LET n == Elem(nodes, idx - 1)
       IN  \E gl, gr \in GarbageNodes :
             PropagateWith(IF InRange(nodes, idx) THEN Elem(nodes, idx) ELSE gl,
                           IF InRange(nodes, n.offset) THEN Elem(nodes, n.offset) ELSE gr)
    /\ oob' = TRUE

BuildNext ==
    \/ \E k \in 1..Len(Meshes) : BuildBegin(k)
    \/ BuildSplit
    \/ BuildSplitUndefined
    \/ BuildLeaf
    \/ BuildPropagate
    \/ BuildPropagateOutOfRange

(***************************************************************************)
(* Simple::trace                                                           *)
(***************************************************************************)
\* lines 245-264: entry, and the locals of the first ray
TraceBegin(batch, f) ==
    /\ pc = "ready"
    /\ input' = batch
    /\ output' = [k \in 1..Len(batch) |-> Unwritten]
    /\ flags' = f
    /\ ii' = 0
    /\ stack' = <<>>
    /\ node_index' = 0
    /\ hit' = NewHit
    /\ max_t' = batch[1].max_t
    /\ prev' = <<>>
    /\ pc' = "trace"
    /\ UNCHANGED <<accel, built, buildVars, oob, dimVars>>

\* the ray of the current iteration of the loop of line 250
ray == Elem(input, ii)

\* line 270 for node n
BoxHit(n) ==
    ray_vs_bounds(RayOrg(ray), InvDir(RayDir(ray)), ray.min_t, max_t, n.min, n.max)

\* line 295 for the triangles of leaf n; gt is what a read past the end yields
LeafTris(n, gt) ==
    [k \in 1..n.count |->
       IF InRange(triangles, n.offset + k - 1) THEN Elem(triangles, n.offset + k - 1) ELSE gt]

LeafInRange(n) == n.count = 0 \/ InRange(triangles, n.offset + n.count - 1)

\* what the reads of line 295 past the end of _triangles may yield at node n
PastTheEnd(n) ==
    IF LeafInRange(n) THEN {CHOOSE gt \in GarbageTriangles : TRUE} ELSE GarbageTriangles

\* lines 309-316 and 250-264: the next node off the stack st, or the hit h is
\* written and the next ray started, or trace returns
Continue(st, h, mt) ==
    IF st # <<>>
    THEN /\ node_index' = st[Len(st)]
         /\ stack' = SubSeq(st, 1, Len(st) - 1)
         /\ hit' = h
         /\ max_t' = mt
         /\ UNCHANGED <<output, ii, pc>>
    ELSE /\ output' = Put(output, ii, h)
         /\ ii' = ii + 1
         /\ stack' = <<>>
         /\ IF ii + 1 < Len(input)
            THEN /\ node_index' = 0
                 /\ hit' = NewHit
                 /\ max_t' = Elem(input, ii + 1).max_t
                 /\ pc' = pc
            ELSE /\ node_index' = 0
                 /\ hit' = h
                 /\ max_t' = mt
                 /\ pc' = "traced"

\* the loop body with line 302 clearing _triangles in place of the stack's entries
VisitClearing(n, gt, bh) ==
    /\ IF bh
       THEN IF n.count = 0
            THEN /\ Len(stack) < MaxStack
                 /\ IF NearFirst(RayDir(ray), n)
                    THEN /\ stack' = Append(stack, n.offset)
                         /\ node_index' = node_index + 1
                    ELSE /\ stack' = Append(stack, node_index + 1)
                         /\ node_index' = n.offset
                 /\ UNCHANGED <<output, ii, hit, max_t, pc>>
            ELSE \E res \in {LeafLoop(LeafTris(n, gt), 0, woop_ray(RayOrg(ray), RayDir(ray)),
                                      ray.min_t, max_t, hit, Shadow(flags))} :
                    Continue(IF res.clear THEN <<>> ELSE stack, res.hit, res.max_t)
       ELSE Continue(stack, hit, max_t)
    /\ oob' = (oob \/ ~InRange(nodes, node_index) \/ (bh /\ ~LeafInRange(n)))
    /\ nodes' = nodes
    /\ triangles' = IF bh /\ n.count # 0 /\ Shadow(flags) THEN <<>> ELSE triangles
    /\ UNCHANGED <<built, buildVars, input, flags, prev, dimVars>>

\* lines 267-313: one iteration of the traversal loop at node n, bh the result
\* of the box test of line 270
Visit(n, gt, bh) ==
    /\ IF bh
       THEN IF n.count = 0
            THEN /\ Len(stack) < MaxStack
                 /\ IF NearFirst(RayDir(ray), n)
                    THEN /\ stack' = Append(stack, n.offset)
                         /\ node_index' = node_index + 1
                    ELSE /\ stack' = Append(stack, node_index + 1)
                         /\ node_index' = n.offset
                 /\ UNCHANGED <<output, ii, hit, max_t, pc>>
            ELSE \E res \in {LeafLoop(LeafTris(n, gt), 0, woop_ray(RayOrg(ray), RayDir(ray)),
                                      ray.min_t, max_t, hit, Shadow(flags))} :
                    Continue(IF res.clear THEN <<>> ELSE stack, res.hit, res.max_t)
       ELSE Continue(stack, hit, max_t)
    /\ oob' = (oob \/ ~InRange(nodes, node_index) \/ (bh /\ ~LeafInRange(n)))
    /\ UNCHANGED <<accel, built, buildVars, input, flags, prev, dimVars>>

\* the box is hit and the node is internal (count == 0): lines 274-289
TraceDescend ==
    /\ pc = "trace"
    /\ InRange(nodes, node_index)
    /\ Elem(nodes, node_index).count = 0
    /\ BoxHit(Elem(nodes, node_index))
    /\ \E gt \in PastTheEnd(Elem(nodes, node_index)) : Visit(Elem(nodes, node_index), gt, TRUE)

\* the box is hit and the node is a leaf: lines 293-313
TraceLeaf ==
    /\ pc = "trace"
    /\ InRange(nodes, node_index)
    /\ Elem(nodes, node_index).count # 0
    /\ BoxHit(Elem(nodes, node_index))
    /\ \E gt \in PastTheEnd(Elem(nodes, node_index)) : Visit(Elem(nodes, node_index), gt, TRUE)

\* the box is missed: lines 309-313
TraceSkip ==
    /\ pc = "trace"
    /\ InRange(nodes, node_index)
    /\ ~BoxHit(Elem(nodes, node_index))
    /\ \E gt \in PastTheEnd(Elem(nodes, node_index)) : Visit(Elem(nodes, node_index), gt, FALSE)

\* line 267 with node_index past the end of _nodes
TraceOutOfRange ==
    /\ pc = "trace"
    /\ ~InRange(nodes, node_index)
    /\ \E g \in GarbageNodes :
         \E gt \in PastTheEnd(g), bh \in {BoxHit(g)} : Visit(g, gt, bh)

\* trace has returned and the caller is done with its two arrays
TraceReturn ==
    /\ pc = "traced"
    /\ pc' = "ready"
    /\ input' = <<>>
    /\ output' = <<>>
    /\ flags' = 0
    /\ ii' = 0
    /\ hit' = NewHit
    /\ max_t' = F(0)
    /\ prev' = <<>>
    /\ UNCHANGED <<accel, built, buildVars, oob, stack, node_index, dimVars>>

TraceNext ==
    \/ \E batch \in Batches, f \in FlagSet : TraceBegin(batch, f)
    \/ TraceReturn
    \/ TraceDescend
    \/ TraceLeaf
    \/ TraceSkip
    \/ TraceOutOfRange

Next == BuildNext \/ TraceNext

Spec == Init /\ [][Next]_vars

\* lines 245-264 entered again by a caller that passes the arrays and the flags
\* of the call that has just returned; the hit array still holds that call's hits
TraceAgain ==
    /\ pc = "traced"
    /\ prev' = output
    /\ ii' = 0
    /\ stack' = <<>>
    /\ node_index' = 0
    /\ hit' = NewHit
    /\ max_t' = input[1].max_t
    /\ pc' = "trace"
    /\ UNCHANGED <<accel, built, buildVars, oob, input, output, flags, dimVars>>

NextAgain == Next \/ TraceAgain

SpecAgain == Init /\ [][NextAgain]_vars

(***************************************************************************)
(* util.h, max_dim called on its own                                       *)
(***************************************************************************)
\* the components of the vectors handed to max_dim: the integers up to
\* MaxCoord either side of zero, and NaN
MaxCoord == 2
Coords == { F(i) : i \in (-MaxCoord)..MaxCoord } \cup {NaN}
DimInputs == Coords \X Coords \X Coords

InitDim ==
    /\ Constructed
    /\ dimArg \in DimInputs
    /\ dimRes = INVALID

\* lines 93-111
MaxDimCall ==
    /\ dimRes = INVALID
    /\ dimRes' = max_dim(dimArg)
    /\ UNCHANGED <<accel, built, pc, buildVars, oob, traceVars, dimArg>>

NextDim == MaxDimCall

SpecDim == InitDim /\ [][NextDim]_vars


(***************************************************************************)
(* Properties of trace results                                             *)
(***************************************************************************)
\* the triangle kernel on triangle k of mesh m over the interval of ray r
Kernel(m, k, r) ==
    woop_ray_vs_triangle(woop_ray(RayOrg(r), RayDir(r)), r.min_t, r.max_t,
                         Vertex(m, k, 0), Vertex(m, k, 1), Vertex(m, k, 2))

\* the nearer of a kernel result and the best result so far
Closer(res, best) ==
    IF res.ok /\ (~best.ok \/ flt(res.d, best.d)) THEN res ELSE best

\* the brute-force loop over the triangles k .. T-1 of mesh m
RECURSIVE BruteForce(_, _, _, _)
BruteForce(m, r, k, best) ==
    IF k >= m.triangles THEN best
    ELSE BruteForce(m, r, k + 1, Closer(Kernel(m, k, r), best))

Brute(m, r) == BruteForce(m, r, 0, WoopMiss)

\* hit h names a triangle of m that the kernel intersects at the distance d
HitAt(m, r, h, d) ==
    /\ h.triangle \in 0..(m.triangles - 1)
    /\ Kernel(m, h.triangle, r).ok
    /\ feq(Kernel(m, h.triangle, r).d, d)

\* hit h is what the brute-force loop finds for ray r: a triangle at the
\* nearest distance, or no triangle
AgreesWithBruteForce(m, r, h) ==
    IF Brute(m, r).ok THEN HitAt(m, r, h, Brute(m, r).d)
    ELSE h.triangle = TRIANGLE_INVALID

\* ray r has a zero direction component on an axis on which its origin lies in
\* the upper face of a node box of non-zero extent: there the slab test of
\* ray_vs_bounds computes 0 * inf and rejects the box
OnUpperFace(ns, r) ==
    \E n \in 1..Len(ns), k \in 1..3 :
        /\ feq(r.direction[k], F(0))
        /\ feq(r.origin[k], ns[n].max[k])
        /\ flt(ns[n].min[k], ns[n].max[k])

\* the rays of base.h as the callers are to supply them: a direction that is
\* not zero and min_t <= max_t
ValidRay(r) ==
    /\ fle(r.min_t, r.max_t)
    /\ \E k \in 1..3 : ~feq(r.direction[k], F(0))

\* a trace call on an accelerator built once from a mesh with T >= 1 has returned
TracedOnce == pc = "traced" /\ Len(built) = 1 /\ mesh.triangles >= 1

\* C1 (as stated): for a mesh with T >= 1 built once and every ray with
\* min_t <= max_t, closest-hit trace writes a triangle at the brute-force
\* nearest distance, and no triangle when brute force finds none.
C1_ClosestIsBruteForce ==
    (TracedOnce /\ ~Shadow(flags)) =>
        \A i \in 1..Len(output) :
            ValidRay(input[i]) =>
                AgreesWithBruteForce(mesh, input[i], output[i])

\* C1 (amended): the same, for the rays that do not lie in the upper face of a
\* node box along a zero direction component.
C1_ClosestIsBruteForceOffFaces ==
    (TracedOnce /\ ~Shadow(flags)) =>
        \A i \in 1..Len(output) :
            (ValidRay(input[i]) /\ ~OnUpperFace(nodes, input[i])) =>
                AgreesWithBruteForce(mesh, input[i], output[i])

\* C1 witness: a closest-hit trace over a tree with internal nodes returned the
\* nearest of several intersected triangles
C1_Witness ==
    /\ TracedOnce /\ ~Shadow(flags)
    /\ Len(nodes) > 1
    /\ ~OnUpperFace(nodes, input[1])
    /\ Brute(mesh, input[1]).ok
    /\ \E k \in 0..(mesh.triangles - 1) :
          Kernel(mesh, k, input[1]).ok /\ flt(Brute(mesh, input[1]).d, Kernel(mesh, k, input[1]).d)
    /\ HitAt(mesh, input[1], output[1], Brute(mesh, input[1]).d)


\* C2: for every built mesh and every ray, in either mode, a ray that no
\* triangle of the mesh intersects within [min_t, max_t] gets TRIANGLE_INVALID.
\* Stated here for the runs that read no element past the end of an array.
C2_MissWritesInvalid ==
    (pc = "traced" /\ ~oob) =>
        \A i \in 1..Len(output) :
            (ValidRay(input[i]) /\ ~Brute(mesh, input[i]).ok) =>
                output[i].triangle = TRIANGLE_INVALID

\* C3: for every built mesh and every ray traced with TRACE_SHADOW, the written
\* triangle differs from TRIANGLE_INVALID exactly when brute force finds the ray
\* occluded.  Stated here for the rays off the upper faces of the node boxes
\* and the runs that read no element past the end of an array.
C3_ShadowIffOccluded ==
    (pc = "traced" /\ Shadow(flags) /\ ~oob) =>
        \A i \in 1..Len(output) :
            (ValidRay(input[i]) /\ ~OnUpperFace(nodes, input[i])) =>
                ((output[i].triangle # TRIANGLE_INVALID) <=> Brute(mesh, input[i]).ok)

\* C4: under TRACE_SHADOW an occluded ray gets triangle = 0 whichever triangle
\* was intersected, and a miss gets TRIANGLE_INVALID.  Stated here for a mesh
\* with T >= 1 built once and the rays off the upper faces of the node boxes.
C4_ShadowSentinel ==
    (TracedOnce /\ Shadow(flags)) =>
        \A i \in 1..Len(output) :
            (ValidRay(input[i]) /\ ~OnUpperFace(nodes, input[i])) =>
                output[i].triangle = (IF Brute(mesh, input[i]).ok THEN 0 ELSE TRIANGLE_INVALID)

\* C5: after a closest-hit trace call the max_t of every ray that hit a
\* triangle is the hit distance.  Stated here for a mesh with T >= 1 built once.
C5_MaxTShrunk ==
    (TracedOnce /\ ~Shadow(flags)) =>
        \A i \in 1..Len(output) :
            (ValidRay(input[i]) /\ output[i].triangle # TRIANGLE_INVALID) =>
                feq(input[i].max_t, Kernel(mesh, output[i].triangle, input[i]).d)

(***************************************************************************)
(* Properties of the arrays build leaves                                   *)
(***************************************************************************)
\* point p lies in the box [bmin, bmax]
Inside(p, bmin, bmax) ==
    \A k \in 1..3 : fle(bmin[k], p[k]) /\ fle(p[k], bmax[k])

\* the box of node n contains the three vertices of triangle t
Encloses(n, t) ==
    Inside(t.p0, n.min, n.max) /\ Inside(t.p1, n.min, n.max) /\ Inside(t.p2, n.min, n.max)

\* the positions of the triangle array that the leaves hold, with their leaf
LeafSlots ==
    { s \in (0..(Len(nodes) - 1)) \X (0..(Len(triangles) - 1)) :
        /\ Elem(nodes, s[1]).count # 0
        /\ Elem(nodes, s[1]).offset <= s[2]
        /\ s[2] < Elem(nodes, s[1]).offset + Elem(nodes, s[1]).count }

\* C6: when build returns, whatever was built before, the triangle array holds
\* the T triangles of the last mesh and nothing else, and node 0 is the root of
\* the tree of the last mesh.  Stated here for the runs that read no element
\* past the end of an array.
C6_RebuildResets ==
    (pc = "ready" /\ built # <<>> /\ ~oob) =>
        /\ Len(triangles) = mesh.triangles
        /\ \A j \in 1..Len(triangles) :
              /\ triangles[j].index \in 0..(mesh.triangles - 1)
              /\ triangles[j] = LeafTriangle(mesh, [index |-> triangles[j].index])
        /\ \A j \in 1..Len(triangles) : Encloses(nodes[1], triangles[j])

\* C7: build of the mesh with T = 0 completes without reading a node past the
\* end of the node array, trace on it never takes the root for an internal
\* node, and every ray gets TRIANGLE_INVALID.
C7_EmptyMesh ==
    (Len(built) = 1 /\ mesh.triangles = 0) =>
        /\ ~oob
        /\ pc # "crashed"
        /\ stack = <<>> /\ node_index = 0
        /\ pc = "traced" => \A i \in 1..Len(output) : output[i].triangle = TRIANGLE_INVALID

\* C8: after build of a mesh with T triangles the triangle array has T entries
\* and each original index 0 .. T-1 is held by exactly one position of exactly
\* one leaf.  Stated here for the runs that read no element past the end of
\* an array.
C8_TrianglePartition ==
    (pc = "ready" /\ built # <<>> /\ ~oob) =>
        /\ Len(triangles) = mesh.triangles
        /\ \A k \in 0..(mesh.triangles - 1) :
              Cardinality({ s \in LeafSlots : Elem(triangles, s[2]).index = k }) = 1

\* C9: after build the box of every leaf contains the vertices of its
\* triangles and the box of every internal node (count = 0) is the union of
\* the boxes of its children idx + 1 and offset.
C9_BoundsEnclose ==
    (pc = "ready" /\ built # <<>>) =>
        /\ \A s \in LeafSlots : Encloses(Elem(nodes, s[1]), Elem(triangles, s[2]))
        /\ \A i \in 0..(Len(nodes) - 1) :
              Elem(nodes, i).count = 0 =>
                  /\ InRange(nodes, i + 1) /\ InRange(nodes, Elem(nodes, i).offset)
                  /\ Elem(nodes, i).min =
                        vmin(Elem(nodes, i + 1).min, Elem(nodes, Elem(nodes, i).offset).min)
                  /\ Elem(nodes, i).max =
                        vmax(Elem(nodes, i + 1).max, Elem(nodes, Elem(nodes, i).offset).max)

\* C10: after build with N nodes every internal node i (count = 0) has its
\* left child i + 1 < N and its right child offset with i < offset < N.
C10_ParentBeforeChild ==
    (pc = "ready" /\ built # <<>>) =>
        \A i \in 0..(Len(nodes) - 1) :
            Elem(nodes, i).count = 0 =>
                /\ i + 1 < Len(nodes)
                /\ i < Elem(nodes, i).offset
                /\ Elem(nodes, i).offset < Len(nodes)

(***************************************************************************)
(* Properties of the tree build makes                                      *)
(***************************************************************************)
\* the nodes that hold triangles
Leaves == { i \in 0..(Len(nodes) - 1) : Elem(nodes, i).count # 0 }

\* build has left its split loop without faulting
SplitDone == pc \in {"propagate", "ready", "trace", "traced"}

StoredAt(k, r, d) ==
    /\ Kernel(mesh, triangles[k].index, r).ok
    /\ feq(Kernel(mesh, triangles[k].index, r).d, d)

\* C12: in closest-hit mode, of the triangles intersected at the same distance
\* the first one tested is reported.  Stated here for a tree that is a single
\* leaf, built once, where the order of the tests is the stored order.
C12_FirstAtDistanceWins ==
    (TracedOnce /\ ~Shadow(flags) /\ Len(nodes) = 1) =>
        \A i \in 1..Len(output) :
            (ValidRay(input[i]) /\ output[i].triangle # TRIANGLE_INVALID) =>
                \E k \in 1..Len(triangles) :
                    /\ triangles[k].index = output[i].triangle
                    /\ \A j \in 1..(k - 1) :
                          ~StoredAt(j, input[i], Kernel(mesh, output[i].triangle, input[i]).d)

(***************************************************************************)
(* Properties of the triangle kernel                                       *)
(***************************************************************************)
\* the vertices of triangle k of mesh m
Corners(m, k) == { Vertex(m, k, 0), Vertex(m, k, 1), Vertex(m, k, 2) }

\* the pairs of triangles of mesh m that have exactly two vertices in common
SharedEdges(m) ==
    { e \in (0..(m.triangles - 1)) \X (0..(m.triangles - 1)) :
        e[1] < e[2] /\ Cardinality(Corners(m, e[1]) \cap Corners(m, e[2])) = 2 }

\* the ray direction is not parallel to the plane of triangle k
Transversal(m, k, r) ==
    ~feq(dot(RayDir(r), cross(vsub(Vertex(m, k, 1), Vertex(m, k, 0)),
                              vsub(Vertex(m, k, 2), Vertex(m, k, 0)))), F(0))

\* ray r meets the segment from e0 to e1 in one point within [min_t, max_t]:
\* org + t dir = e0 + s (e1 - e0) with 0 <= s <= 1, solved with n = dir x e
MeetsSegment(r, e0, e1) ==
    LET w == vsub(e0, RayOrg(r))
        e == vsub(e1, e0)
        n == cross(RayDir(r), vsub(e1, e0))
        nn == dot(n, n)
        t == fdiv(dot(cross(w, e), n), nn)
        s == fdiv(dot(cross(w, RayDir(r)), n), nn)
    IN  /\ ~feq(nn, F(0))
        /\ feq(dot(w, n), F(0))
        /\ fle(F(0), s) /\ fle(s, F(1))
        /\ fle(r.min_t, t) /\ fle(t, r.max_t)

\* ray r passes, across the planes of both triangles, through the edge that
\* the triangles e[1] and e[2] of mesh m share
ThroughSharedEdge(m, e, r) ==
    LET c == Corners(m, e[1]) \cap Corners(m, e[2])
        e0 == CHOOSE p \in c : TRUE
        e1 == CHOOSE q \in c : q # e0
    IN  /\ Transversal(m, e[1], r) /\ Transversal(m, e[2], r)
        /\ MeetsSegment(r, e0, e1)

\* C13 (as stated): for two triangles sharing an edge and a ray through a point
\* of the shared edge within [min_t, max_t], the kernel accepts both triangles
\* (a zero edge function with the other two of one sign) and the closest-hit
\* trace reports a hit, never a miss.
C13_Watertight ==
    (TracedOnce /\ ~Shadow(flags)) =>
        \A i \in 1..Len(output) : \A e \in SharedEdges(mesh) :
            ThroughSharedEdge(mesh, e, input[i]) =>
                /\ Kernel(mesh, e[1], input[i]).ok
                /\ Kernel(mesh, e[2], input[i]).ok
                /\ output[i].triangle # TRIANGLE_INVALID

\* C13 (amended): the kernel accepts both triangles for every such ray, and the
\* trace reports a hit for the rays that do not lie in the upper face of a
\* node box along a zero direction component.
C13_WatertightOffFaces ==
    (TracedOnce /\ ~Shadow(flags)) =>
        \A i \in 1..Len(output) : \A e \in SharedEdges(mesh) :
            ThroughSharedEdge(mesh, e, input[i]) =>
                /\ Kernel(mesh, e[1], input[i]).ok
                /\ Kernel(mesh, e[2], input[i]).ok
                /\ ~OnUpperFace(nodes, input[i]) => output[i].triangle # TRIANGLE_INVALID

\* C13 witness: a closest-hit trace of a ray through the diagonal that two
\* triangles share has reported one of the two
C13_Witness ==
    /\ TracedOnce /\ ~Shadow(flags)
    /\ ~OnUpperFace(nodes, input[1])
    /\ \E e \in SharedEdges(mesh) :
          /\ ThroughSharedEdge(mesh, e, input[1])
          /\ output[1].triangle \in {e[1], e[2]}

(***************************************************************************)
(* Properties of trace calls                                               *)
(***************************************************************************)
\* a step of a trace call: its entry, an iteration of its loops, its return
TraceStep == pc' = "trace" \/ pc \in {"trace", "traced"}

C15_RaysIndependent ==
    pc = "traced" =>
        /\ Len(output) = Len(input)
        /\ \A i \in 1..Len(output) : output[i] # Unwritten
        /\ \A i, j \in 1..Len(output) : input[i] = input[j] => output[i] = output[j]

\* C16: a trace call made again on the same built accelerator with the same
\* ray array, as the call before left it, and the same flags writes the hits
\* the call before wrote.
C16_RepeatedCallsAgree ==
    (pc = "traced" /\ prev # <<>>) => output = prev

\* the nodes that trace descends from
InternalNodes == { i \in 0..(Len(nodes) - 1) : Elem(nodes, i).count = 0 }

\* C17: while a ray is traced through an accelerator built from a mesh with
\* T >= 1, the traversal stack holds at most as many entries as there are
\* internal nodes, and no read goes past the end of the arrays.
C17_StackBounded ==
    (pc = "trace" /\ mesh.triangles >= 1) =>
        /\ Len(stack) <= Cardinality(InternalNodes)
        /\ InRange(nodes, node_index)

\* the volumes build has still to handle: the current one, then the stack
Pending == IF pc = "split" THEN <<vol>> \o volumes ELSE <<>>

\* C18: build ends for every mesh, the mesh of coincident centroids included:
\* it never faults, each volume it still has to handle holds at least one
\* prim of a mesh that has any, the pending volumes are disjoint ranges, and
\* the loop is left with the stack of volumes empty.
C18_BuildTerminates ==
    /\ pc # "crashed"
    /\ (pc = "split" /\ mesh.triangles >= 1) =>
           \A k \in 1..Len(Pending) : Pending[k].first < Pending[k].last
    /\ pc = "split" =>
           \A j, k \in 1..Len(Pending) :
               j # k => (Pending[j].last <= Pending[k].first \/ Pending[k].last <= Pending[j].first)
    /\ pc \in {"propagate", "ready"} => volumes = <<>>

\* C19: whenever build bins the prims of a volume of more than MAX_NODE_SIZE,
\* the conversion of line 91 is defined for each of them and yields an index
\* in 0 .. BINS - 1, a volume without centroid extent included.
C19_BinIndexDefined ==
    (pc = "split" /\ vol.last - vol.first > MAX_NODE_SIZE) =>
        /\ AllCastsDefined(prims, vol)
        /\ BinsInRange(prims, vol, INVALID)

\* a step of the build loop that splits vol and pushes the right child
SplitStep ==
    /\ pc = "split"
    /\ vol.last - vol.first > MAX_NODE_SIZE
    /\ Len(volumes') = Len(volumes) + 1

\* lines 165-174: after the fallback both children carry the parent's centroid
\* box, which no partition with two non-empty sides gives the left child
TookFallback ==
    /\ vol'.min = vol.min /\ vol'.max = vol.max
    /\ volumes'[Len(volumes')].min = vol.min
    /\ volumes'[Len(volumes')].max = vol.max

\* C20: a split that does not take the fallback leaves first < l < last, the
\* left child [first, l) and the right child [l, last), every prim of the left
\* child with mid[axis] < split and every prim of the right child with
\* mid[axis] >= split, for the axis stored in the node.
C20_PartitionOrdered ==
    [][(SplitStep /\ ~TookFallback) =>
         \E ub \in {0, BINS - 1} :
           LET split == SplitCoord(prims, vol, ub)
               axis == SplitAxis(vol)
               l == vol'.last
               right == volumes'[Len(volumes')]
           IN  /\ vol.first < l /\ l < vol.last
               /\ vol'.first = vol.first
               /\ right.first = l /\ right.last = vol.last
               /\ Elem(nodes', Len(nodes)).axis = axis
               /\ Elem(nodes', Len(nodes)).count = 0
               /\ \A k \in vol.first..(l - 1) : flt(At(Elem(prims', k).mid, axis), split)
               /\ \A k \in l..(vol.last - 1) : fge(At(Elem(prims', k).mid, axis), split)]_vars

\* C20 witness: build has just split the six slices along x away from the
\* fallback: the left child is current, the right child is on top of the stack
\* and every centroid of the left child lies below every one of the right child.
C20_Witness ==
    /\ pc = "split"
    /\ built = <<4>>
    /\ volumes # <<>>
    /\ vol.first < vol.last
    /\ volumes[Len(volumes)].first = vol.last
    /\ vol.last < volumes[Len(volumes)].last
    /\ vol.max # volumes[Len(volumes)].max
    /\ \A a \in vol.first..(vol.last - 1) :
         \A b \in vol.last..(volumes[Len(volumes)].last - 1) :
           flt(At(Elem(prims, a).mid, Elem(nodes, Len(nodes) - 1).axis),
               At(Elem(prims, b).mid, Elem(nodes, Len(nodes) - 1).axis))

(***************************************************************************)
(* Properties of the traversal order                                       *)
(***************************************************************************)
\* the node that is current, when it and its triangles are read in range
Current == Elem(nodes, node_index)
ReadsInRange == InRange(nodes, node_index) /\ LeafInRange(Current)

\* the test of line 297 for triangle jj of the current leaf with the bound mt
TestOf(jj, mt) ==
    woop_ray_vs_triangle(woop_ray(RayOrg(ray), RayDir(ray)), ray.min_t, mt,
                         Elem(triangles, Current.offset + jj).p0,
                         Elem(triangles, Current.offset + jj).p1,
                         Elem(triangles, Current.offset + jj).p2)

\* the positions in the current leaf of the triangles whose test succeeds
\* against the bound the leaf is entered with
Succeeding == { jj \in 0..(Current.count - 1) : TestOf(jj, max_t).ok }
FirstSuccess == CHOOSE jj \in Succeeding : \A kk \in Succeeding : jj <= kk

\* the ray of this step is over: its hit is written and the next ray starts
\* at node 0 with an empty stack, or trace returns
RayEnds ==
    /\ ii' = ii + 1
    /\ stack' = <<>>
    /\ pc' = "traced" \/ (pc' = "trace" /\ node_index' = 0 /\ hit' = NewHit)

\* C21: under TRACE_SHADOW a ray that is still traversed has no successful
\* test behind it, and the step in which a test succeeds ends the ray with the
\* stack cleared: the hit written is the first triangle of the leaf whose test
\* succeeds, so no later triangle was tested and no other node is visited.
C21_ShadowStopsAtFirstSuccess ==
    [][(pc = "trace" /\ Shadow(flags)) =>
         /\ hit = NewHit
         /\ max_t = ray.max_t
         /\ (pc' = "trace" /\ ii' = ii) => (hit' = hit /\ max_t' = max_t)
         /\ (ReadsInRange /\ BoxHit(Current) /\ Succeeding # {}) =>
              /\ RayEnds
              /\ Elem(output', ii).triangle =
                   Elem(triangles, Current.offset + FirstSuccess).index
              /\ Elem(output', ii).barycentric = TestOf(FirstSuccess, max_t).bary]_vars

\* C21 witness: a shadow ray from below the layers has been answered with
\* triangle 0, the first of the leaf, although the test of triangle 1 behind
\* it in the array succeeds as well (and nearer).
C21_Witness ==
    /\ pc = "traced"
    /\ built = <<3>>
    /\ Shadow(flags)
    /\ input = <<RayList[1]>>
    /\ output[1].triangle = 0
    /\ Kernel(mesh, 1, RayList[1]).ok
    /\ flt(Kernel(mesh, 1, RayList[1]).d, Kernel(mesh, 0, RayList[1]).d)

\* node 0 is the root of a tree that build made from a mesh with triangles
RootedTree == built # <<>> /\ Meshes[built[1]].triangles >= 1

\* the index after the subtree of node i in the array
RECURSIVE SubtreeEnd(_)
SubtreeEnd(i) ==
    IF Elem(nodes, i).count # 0 THEN i + 1 ELSE SubtreeEnd(Elem(nodes, i).offset)

Parents(s) == { p \in InternalNodes : p + 1 = s \/ Elem(nodes, p).offset = s }
Sibling(s) ==
    LET p == CHOOSE q \in Parents(s) : TRUE
    IN  IF p + 1 = s THEN Elem(nodes, p).offset ELSE p + 1

\* every node on the stack is a child of one internal node, and the current
\* node lies in the subtree of its sibling
FarChildrenWait ==
    \A k \in 1..Len(stack) :
        /\ Cardinality(Parents(stack[k])) = 1
        /\ node_index >= Sibling(stack[k])
        /\ node_index < SubtreeEnd(Sibling(stack[k]))

\* C22: at an internal node whose box is hit the next current node is idx + 1
\* and offset is pushed when D[axis] > 0, otherwise the next current node is
\* offset and idx + 1 is pushed; and as long as a far child waits on the
\* stack of a traversal of a tree, the current node is in the subtree of the
\* near child beside it.
C22_NearBeforeFar ==
    [][pc = "trace" =>
         /\ RootedTree => FarChildrenWait
         /\ (InRange(nodes, node_index) /\ Current.count = 0 /\ BoxHit(Current)) =>
              /\ pc' = "trace" /\ ii' = ii /\ hit' = hit /\ max_t' = max_t
              /\ IF fgt(At(RayDir(ray), Current.axis), F(0))
                 THEN node_index' = node_index + 1 /\ stack' = Append(stack, Current.offset)
                 ELSE node_index' = Current.offset /\ stack' = Append(stack, node_index + 1)]_vars

\* C22 witness: a ray running down the x axis has hit the root box of the
\* slices: the right child is current and the left child, index 1, waits.
C22_Witness ==
    /\ pc = "trace"
    /\ built = <<4>>
    /\ flt(At(RayDir(ray), Elem(nodes, 0).axis), F(0))
    /\ node_index = Elem(nodes, 0).offset
    /\ stack = <<1>>

(***************************************************************************)
(* Properties of max_dim                                                   *)
(***************************************************************************)
Returned == dimRes # INVALID
NoNaN(v) == \A j \in 0..2 : ~IsNaN(At(v, j))
Largest(v, k) == \A j \in 0..2 : fge(fabsf(At(v, k)), fabsf(At(v, j)))

\* C23: max_dim returns an index of a component of the largest absolute value,
\* and of several such components the one that comes first in the order x, y, z
\* (NaN components are outside of what max_dim is specified for).
C23_TiesToLowestIndex ==
    (Returned /\ NoNaN(dimArg)) =>
        /\ dimRes \in 0..2
        /\ Largest(dimArg, dimRes)
        /\ \A j \in 0..2 : Largest(dimArg, j) => dimRes <= j

\* C23 amended: for a vector without NaN components max_dim returns an index
\* of a component of the largest absolute value, and of several such
\* components the one that comes last in the order x, y, z.
C23_TiesToHighestIndex ==
    (Returned /\ NoNaN(dimArg)) =>
        /\ dimRes \in 0..2
        /\ Largest(dimArg, dimRes)
        /\ \A j \in 0..2 : Largest(dimArg, j) => dimRes >= j

\* C23 witness: max_dim has returned 1 for (1, 1, 0), where x and y tie.
C23_Witness ==
    /\ Returned
    /\ dimArg = <<F(1), F(1), F(0)>>
    /\ dimRes = 1

(***************************************************************************)
(* Properties of the build loops                                           *)
(***************************************************************************)
\* C24: every index into the node array that build uses is below the number
\* of nodes: the parent index of a popped right volume when its offset is
\* written, and idx + 1 and node[idx].offset when the propagation pass reads
\* the children of a node it takes for internal.
C24_BuildIndicesInRange ==
    /\ (pc = "split" /\ vol.parent # INVALID) => vol.parent < Len(nodes)
    /\ (pc = "propagate" /\ idx > 0) =>
           /\ idx - 1 < Len(nodes)
           /\ ChildrenInRange(idx - 1)

\* C25: after build of a mesh with T >= 1 the node array is a binary tree in
\* pre-order: N = 2L - 1, both children of an internal node lie behind it in
\* the array, every node but node 0 is a child of exactly one internal node,
\* the right child of a node is the first index after its left subtree, and
\* the subtree of node 0 is the whole array.
C25_PreorderTree ==
    (pc \in {"ready", "trace", "traced"} /\ mesh.triangles >= 1) =>
        /\ Len(nodes) = 2 * Cardinality(Leaves) - 1
        /\ \A i \in InternalNodes :
               i + 1 < Elem(nodes, i).offset /\ Elem(nodes, i).offset < Len(nodes)
        /\ Parents(0) = {}
        /\ \A s \in 1..(Len(nodes) - 1) : Cardinality(Parents(s)) = 1
        /\ \A i \in InternalNodes : Elem(nodes, i).offset = SubtreeEnd(i + 1)
        /\ SubtreeEnd(0) = Len(nodes)

\* the triangles that the build calls before the current one left in _triangles
RECURSIVE TrianglesBefore(_)
TrianglesBefore(k) ==
    IF k <= 1 THEN 0 ELSE TrianglesBefore(k - 1) + Meshes[built[k - 1]].triangles

\* the leaves the current build call has emitted, and the prims [first, last)
\* each of them took
Emitted == { i \in Leaves : Elem(nodes, i).offset >= TrianglesBefore(Len(built)) }
EmittedFirst(i) == Elem(nodes, i).offset - TrianglesBefore(Len(built))
EmittedLast(i) == EmittedFirst(i) + Elem(nodes, i).count

\* how many of the ranges of the current volume, the pending volumes and the
\* emitted leaves hold prim k
Holders(k) ==
    Cardinality({ j \in 1..Len(Pending) : Pending[j].first <= k /\ k < Pending[j].last })
    + Cardinality({ i \in Emitted : EmittedFirst(i) <= k /\ k < EmittedLast(i) })

\* C26: at the start of every iteration of the split loop each position of
\* [0, T) lies in exactly one of the ranges of the current volume, the pending
\* volumes and the leaves emitted so far, and no range leaves [0, T); prims
\* holds each of the T initial prims once; and the centroid of every prim of
\* a volume lies in the centroid box of the volume.
C26_SplitLoopInvariant ==
    pc = "split" =>
        /\ \A j \in 1..Len(Pending) :
               Pending[j].first <= Pending[j].last /\ Pending[j].last <= mesh.triangles
        /\ \A i \in Emitted : EmittedLast(i) <= mesh.triangles
        /\ \A k \in 0..(mesh.triangles - 1) : Holders(k) = 1
        /\ Len(prims) = mesh.triangles
        /\ \A k \in 0..(mesh.triangles - 1) :
               \E j \in 0..(mesh.triangles - 1) : Elem(prims, j) = MakePrim(mesh, k)
        /\ \A j \in 1..Len(Pending) :
               \A k \in Pending[j].first..(Pending[j].last - 1) :
                   Inside(Elem(prims, k).mid, Pending[j].min, Pending[j].max)

\* C26 witness: in the build of the slices the partition has reordered prims,
\* the left leaf has been emitted and the right volume is current.
C26_Witness ==
    /\ pc = "split"
    /\ built = <<4>>
    /\ prims # InitPrims(mesh)
    /\ Emitted # {}
    /\ vol.first > 0
    /\ vol.last = mesh.triangles

(***************************************************************************)
(* Properties of the running bound of a closest-hit traversal              *)
(***************************************************************************)
\* what a triangle test may be handed: the triangles of the accelerator and
\* what a read past their end yields
Candidates == { triangles[k] : k \in 1..Len(triangles) } \cup GarbageTriangles

\* the test of line 297 for triangle t against the whole interval of the ray
FullTest(t) ==
    woop_ray_vs_triangle(woop_ray(RayOrg(ray), RayDir(ray)), ray.min_t, ray.max_t,
                         t.p0, t.p1, t.p2)

\* hit h and bound mt are the initial ones, or the outputs of one successful test
FromOneTest(h, mt) ==
    \/ h.triangle = TRIANGLE_INVALID /\ mt = ray.max_t
    \/ /\ h.triangle # TRIANGLE_INVALID
       /\ fle(ray.min_t, mt) /\ fle(mt, ray.max_t)
       /\ \E t \in Candidates :
            /\ t.index = h.triangle
            /\ \E res \in {FullTest(t)} :
                 res.ok /\ res.d = mt /\ res.bary = h.barycentric

\* the results of the tests of line 297 for the triangles of the current leaf,
\* in array order, each against the bound the leaf is entered with
RECURSIVE Tests(_)
Tests(jj) == IF jj >= Current.count THEN <<>> ELSE <<TestOf(jj, max_t)>> \o Tests(jj + 1)

\* of the tests ts that succeed, the last one with the least t: the one that
\* is the last to succeed as the bound shrinks
Winners(ts) ==
    { j \in 1..Len(ts) :
        /\ ts[j].ok
        /\ \A k \in 1..Len(ts) :
               ts[k].ok => (fle(ts[j].d, ts[k].d) /\ (ts[k].d = ts[j].d => k <= j)) }

RayGoesOn == pc' = "trace" /\ ii' = ii
HitAfter == IF RayGoesOn THEN hit' ELSE Elem(output', ii)

\* a step at a leaf whose tests gave ts: nothing changes if none succeeded,
\* else hit and max_t are the outputs of the last successful test
LeafStep(ts) ==
    IF \A j \in 1..Len(ts) : ~ts[j].ok
    THEN /\ HitAfter = hit
         /\ RayGoesOn => max_t' = max_t
    ELSE \E j \in Winners(ts) :
         /\ HitAfter.triangle = Elem(triangles, Current.offset + j - 1).index
         /\ HitAfter.barycentric = ts[j].bary
         /\ (RayGoesOn \/ pc' = "traced") => max_t' = ts[j].d

\* C27: in a closest-hit traversal of a ray, hit and max_t are the initial
\* ones or come both from one successful test with min_t <= t <= the ray's
\* max_t; a step never raises max_t and changes hit or max_t only at a leaf
\* where a test succeeds; after a leaf the hit is that of the last successful
\* test and max_t its t, so the hit written at the end has a triangle if and
\* only if some test succeeded.
C27_BoundOnlyShrinks ==
    [][(pc = "trace" /\ ~Shadow(flags) /\ ValidRay(ray)) =>
         /\ FromOneTest(hit, max_t)
         /\ RayGoesOn => fle(max_t', max_t)
         /\ (HitAfter # hit \/ (RayGoesOn /\ max_t' # max_t)) =>
              /\ HitAfter.triangle # TRIANGLE_INVALID
              /\ InRange(nodes, node_index) => (Current.count # 0 /\ BoxHit(Current))
         /\ (ReadsInRange /\ Current.count # 0 /\ BoxHit(Current)) =>
              \E ts \in {Tests(0)} : LeafStep(ts)]_vars

\* C27 witness: a closest-hit ray from below the layers has returned triangle 1
\* at t = 2 after the test of triangle 0, earlier in the leaf, had succeeded
\* with t = 3.
C27_Witness ==
    /\ pc = "traced"
    /\ built = <<3>>
    /\ flags = 0
    /\ input = <<RayList[1]>>
    /\ output[1].triangle = 1
    /\ max_t = F(2)
    /\ Kernel(mesh, 0, RayList[1]).ok
    /\ Kernel(mesh, 0, RayList[1]).d = F(3)

============================================================================
